---- MODULE Spec2Model ----
(***************************************************************************)
(* A model of src/base.py: ModelClient.generate_response (a Participant    *)
(* with a bounded conversation_history) and DialogueOrchestrator           *)
(* (add_model, run_dialogue).                                              *)
(*                                                                         *)
(* Spec        one orchestrator: registrations, then one run_dialogue.     *)
(* SpecFair    Spec with every await of the run eventually returning.      *)
(* SpecClient  one ModelClient called directly, many times in sequence.    *)
(***************************************************************************)
EXTENDS Integers, Sequences, FiniteSets, TLC

VARIABLES
    models,             \* DialogueOrchestrator.models: a function from the registered roles to clients
    hist,               \* client -> ModelClient.conversation_history
    system_prompt,      \* client -> ModelClient.system_prompt
    dialogue_history,   \* DialogueOrchestrator.dialogue_history
    pc,                 \* where run_dialogue (or the direct caller) stands
    initial_topic,      \* run_dialogue argument
    rounds,             \* run_dialogue argument
    commentary_frequency, \* run_dialogue argument
    round_num,          \* loop variable of "for round_num in range(rounds)"
    current_prompt,     \* local of run_dialogue
    response_a,         \* local of run_dialogue
    response_b,         \* local of run_dialogue
    inflight,           \* the chat-completion requests posted and not yet answered
    open_sessions,      \* the aiohttp.ClientSession objects currently open
    nsessions,          \* the number of sessions created so far
    raised,             \* the exception that left run_dialogue, "" if none
    returned,           \* the value returned by the last generate_response
    events,             \* the run's observable steps, in order
    exchanges,          \* client -> the (prompt, reply) pairs of its successful calls
    ncalls              \* generate_response calls started by the direct caller

vars == <<models, hist, system_prompt, dialogue_history, pc, initial_topic, rounds,
          commentary_frequency, round_num, current_prompt, response_a, response_b,
          inflight, open_sessions, nsessions, raised, returned, events, exchanges,
          ncalls>>

(***************************************************************************)
(* Bounds of the model.                                                    *)
(***************************************************************************)
MaxRounds == 2
MaxFreq == 3
MaxCalls == 12

(***************************************************************************)
(* Program constants.                                                      *)
(***************************************************************************)
MaxHistory == 20
StatusOK == 200

Roles == {"model_a", "model_b", "commentator"}
Clients == {1, 2, 3}

\* The three ModelClient objects main() builds.
ClientName(c) ==
    CASE c = 1 -> "Philosopher"
      [] c = 2 -> "Analyst"
      [] OTHER -> "Observer"

MainSystemPrompt(c) ==
    CASE c = 1 -> "You are a thoughtful philosopher who enjoys deep discussions."
      [] c = 2 -> "You are an analytical thinker who values evidence and logic."
      [] OTHER -> "You are an insightful observer who analyzes conversations."

Topics == {"What role should artificial intelligence play in creative endeavors?"}

\* add_model calls the callers make: main()'s three, and one that registers
\* the model_a object a second time, as model_b.
Registrations == {<<"model_a", 1>>, <<"model_b", 2>>, <<"commentator", 3>>, <<"model_b", 1>>}

(***************************************************************************)
(* What the endpoint can do with one request: session.post raises, or a    *)
(* response arrives with a status and a JSON body. exc is the class of the *)
(* exception session.post raises ("" if none) and msg its str(). isstr     *)
(* tells whether the body's choices[0].message.content is a JSON string;   *)
(* content is that value, a value that is not a string as its JSON text.   *)
(***************************************************************************)
Reply(text) ==
    [exc |-> "", msg |-> "", status |-> StatusOK, wellformed |-> TRUE, isstr |-> TRUE,
     content |-> text]
HttpError(code) ==
    [exc |-> "", msg |-> "", status |-> code, wellformed |-> TRUE, isstr |-> TRUE,
     content |-> ""]
NoChoices ==
    [exc |-> "", msg |-> "", status |-> StatusOK, wellformed |-> FALSE, isstr |-> FALSE,
     content |-> ""]
NonStringContent(json) ==
    [exc |-> "", msg |-> "", status |-> StatusOK, wellformed |-> TRUE, isstr |-> FALSE,
     content |-> json]
TransportError(cls, text) ==
    [exc |-> cls, msg |-> text, status |-> 0, wellformed |-> FALSE, isstr |-> FALSE,
     content |-> ""]

\* The answers drawn for the calls of a run: one for each of the three exits of
\* generate_response (line 54, line 56, line 58).
Outcomes == {Reply("yes"), HttpError(500), TransportError("TimeoutError", "Timeout")}

\* The answers drawn for a direct caller: also a 200 whose body lacks "choices",
\* which raises KeyError at line 44 and leaves by line 58 as well.
ClientOutcomes == Outcomes \cup {NoChoices}

\* The classes "except Exception" (line 57) catches, among those the model draws.
ExceptionClasses == {"TimeoutError", "ClientError", "KeyError"}

NoException == [cls |-> "", msg |-> ""]

\* lines 39-44: the exception raised inside the try block, if any
RaisedInTry(o) ==
    IF o.exc # "" THEN [cls |-> o.exc, msg |-> o.msg]
    ELSE IF o.status = StatusOK /\ ~o.wellformed
         THEN [cls |-> "KeyError", msg |-> "'choices'"]
         ELSE NoException

\* A variant of line 57: "except aiohttp.ClientError" in place of "except Exception".
CatchesOnlyClientError(cls) == cls = "ClientError"

\* line 57
Catches(cls) == cls \in ExceptionClasses

\* The exception that leaves generate_response, "" if it returns.
Escapes(o) ==
    IF RaisedInTry(o) # NoException /\ ~Catches(RaisedInTry(o).cls)
    THEN RaisedInTry(o).cls ELSE ""

Turn(r, text) == [role |-> r, content |-> text]

\* A variant of lines 18-28 that leaves out line 25.
MessagesWithoutHistory(sys, history, prompt) ==
    (IF sys # "" THEN <<Turn("system", sys)>> ELSE <<>>) \o <<Turn("user", prompt)>>

\* lines 18-28
Messages(sys, history, prompt) ==
    (IF sys # "" THEN <<Turn("system", sys)>> ELSE <<>>)
        \o history \o <<Turn("user", prompt)>>

\* lines 42-44: does the call reach the success path
Succeeds(o) == RaisedInTry(o) = NoException /\ o.status = StatusOK

\* A variant of line 52: [-19:] in place of [-20:].
TruncateSplitsPair(h) ==
    IF Len(h) > MaxHistory THEN SubSeq(h, Len(h) - MaxHistory + 2, Len(h)) ELSE h

\* A variant of line 52: [:20] in place of [-20:].
TruncateKeepOldest(h) ==
    IF Len(h) > MaxHistory THEN SubSeq(h, 1, MaxHistory) ELSE h

\* lines 51-52
Truncate(h) ==
    IF Len(h) > MaxHistory THEN SubSeq(h, Len(h) - MaxHistory + 1, Len(h)) ELSE h

\* A variant of lines 47-52 that appends the user turn before the request is made.
HistoryAfterAlways(history, prompt, o) ==
    IF Succeeds(o)
    THEN Truncate(history \o <<Turn("user", prompt), Turn("assistant", o.content)>>)
    ELSE Truncate(history \o <<Turn("user", prompt)>>)

\* lines 47-52
HistoryAfter(history, prompt, o) ==
    IF Succeeds(o)
    THEN Truncate(history \o <<Turn("user", prompt), Turn("assistant", o.content)>>)
    ELSE history

\* A variant of lines 54-58 without the "Error: " prefixes.
ReturnValueRaw(o) ==
    IF Succeeds(o) THEN o.content
    ELSE IF RaisedInTry(o) # NoException THEN RaisedInTry(o).msg
    ELSE ToString(o.status)

\* lines 54-58
ReturnValue(o) ==
    IF Succeeds(o) THEN o.content
    ELSE IF RaisedInTry(o) # NoException THEN "Error: " \o RaisedInTry(o).msg
    ELSE "Error: HTTP " \o ToString(o.status)

\* A variant of lines 113-121 that puts model_b's reply under both names.
RecentExchangeRepeatsB(name_a, resp_a, name_b, resp_b) ==
    "Recent exchange: " \o name_a \o ": " \o resp_b \o " " \o name_b \o ": " \o resp_b
        \o " Please provide commentary on this exchange."

\* lines 113-121
RecentExchange(name_a, resp_a, name_b, resp_b) ==
    "Recent exchange: " \o name_a \o ": " \o resp_a \o " " \o name_b \o ": " \o resp_b
        \o " Please provide commentary on this exchange."

\* lines 139-149
FinalSummary(name_a, name_b, topic) ==
    "Please provide a comprehensive analysis of the entire dialogue between "
        \o name_a \o " and " \o name_b \o " on the topic: " \o topic

\* A variant of line 109 that tests round_num in place of round_num + 1.
DividesZeroBased(b, a) == (a - 1) % (IF b < 0 THEN -b ELSE b) = 0

\* line 109: Python's a % b == 0 for b # 0 (b's sign does not matter for that test)
Divides(b, a) == a % (IF b < 0 THEN -b ELSE b) = 0

Event(kind, site, r, text) == [ev |-> kind, site |-> site, round |-> r, text |-> text]

\* The prompts a direct caller of generate_response passes.
Prompts == {"hello", "again"}

NoModels == [r \in {} |-> 1]

(***************************************************************************)
(* generate_response, in its two steps: up to the await of session.post    *)
(* (lines 18-39), and from the answer to the return (lines 42-58).         *)
(***************************************************************************)
Request(c, prompt, session) ==
    [client |-> c, prompt |-> prompt, session |-> session,
     messages |-> Messages(system_prompt[c], hist[c], prompt)]

Post(req) == inflight' = inflight \cup {req}

\* A variant in which conversation_history is one list shared by all clients.
AnswerSharedHistory(req, o) ==
    /\ inflight' = inflight \ {req}
    /\ hist' = [c \in Clients |-> HistoryAfter(hist[c], req.prompt, o)]
    /\ exchanges' = [exchanges EXCEPT ![req.client] =
                        IF Succeeds(o) THEN Append(@, <<req.prompt, o.content>>) ELSE @]
    /\ returned' = ReturnValue(o)

\* A variant in which the request is not over when the call returns.
AnswerKeepsRequest(req, o) ==
    /\ inflight' = inflight
    /\ hist' = [hist EXCEPT ![req.client] = HistoryAfter(@, req.prompt, o)]
    /\ exchanges' = [exchanges EXCEPT ![req.client] =
                        IF Succeeds(o) THEN Append(@, <<req.prompt, o.content>>) ELSE @]
    /\ returned' = ReturnValue(o)

\* The conversation_history a request's message list was built from
\* (line 25): the list without its system turn and its last, user turn.
Snapshot(req) ==
    SubSeq(req.messages, IF system_prompt[req.client] # "" THEN 2 ELSE 1,
           Len(req.messages) - 1)

\* A variant of lines 47-52 that extends the list read when the call started.
AnswerFromSnapshot(req, o) ==
    /\ inflight' = inflight \ {req}
    /\ hist' = [hist EXCEPT ![req.client] = HistoryAfter(Snapshot(req), req.prompt, o)]
    /\ exchanges' = [exchanges EXCEPT ![req.client] =
                        IF Succeeds(o) THEN Append(@, <<req.prompt, o.content>>) ELSE @]
    /\ returned' = ReturnValue(o)

\* lines 42-58, on the paths that return
Answer(req, o) ==
    /\ inflight' = inflight \ {req}
    /\ hist' = [hist EXCEPT ![req.client] = HistoryAfter(@, req.prompt, o)]
    /\ exchanges' = [exchanges EXCEPT ![req.client] =
                        IF Succeeds(o) THEN Append(@, <<req.prompt, o.content>>) ELSE @]
    /\ returned' = ReturnValue(o)

(***************************************************************************)
(* DialogueOrchestrator                                                    *)
(***************************************************************************)
Init ==
    /\ models = NoModels
    /\ hist = [c \in Clients |-> <<>>]
    /\ system_prompt = [c \in Clients |-> MainSystemPrompt(c)]
    /\ dialogue_history = <<>>
    /\ pc = "NotStarted"
    /\ initial_topic = ""
    /\ rounds = 0
    /\ commentary_frequency = 0
    /\ round_num = -1
    /\ current_prompt = ""
    /\ response_a = ""
    /\ response_b = ""
    /\ inflight = {}
    /\ open_sessions = {}
    /\ nsessions = 0
    /\ raised = ""
    /\ returned = ""
    /\ events = <<>>
    /\ exchanges = [c \in Clients |-> <<>>]
    /\ ncalls = 0

locals == <<round_num, current_prompt, response_a, response_b>>
args == <<initial_topic, rounds, commentary_frequency>>
memory == <<hist, exchanges, returned>>
sessions == <<open_sessions, nsessions>>

\* A variant of line 68 that rebinds the dict: self.models = {role: client}.
add_modelRebindsDict(role, client) ==
    /\ pc = "NotStarted"
    /\ models' = [r \in {role} |-> client]
    /\ UNCHANGED <<hist, system_prompt, dialogue_history, pc, args, locals, inflight,
                   sessions, raised, returned, events, exchanges, ncalls>>

\* lines 66-68
add_model(role, client) ==
    /\ pc = "NotStarted"
    /\ models' = [r \in DOMAIN models \cup {role} |-> IF r = role THEN client ELSE models[r]]
    /\ UNCHANGED <<hist, system_prompt, dialogue_history, pc, args, locals, inflight,
                   sessions, raised, returned, events, exchanges, ncalls>>

\* A variant in which the session is not held by an "async with" and stays
\* open when an exception leaves run_dialogue.
RaiseLeavingSessionOpen(exc) ==
    /\ pc' = "Raised"
    /\ raised' = exc
    /\ UNCHANGED <<open_sessions, nsessions>>

\* An exception leaves run_dialogue; the "async with" it leaves closes its session.
Raise(exc) ==
    /\ pc' = "Raised"
    /\ raised' = exc
    /\ open_sessions' = {}
    /\ UNCHANGED nsessions

\* A variant of lines 81, 91, 103, 109 without the "+ 1".
RoundNumberZeroBased == round_num

\* lines 81, 91, 103, 109: the round's number, one more than the loop variable
RoundNumber == round_num + 1

\* A variant of line 80: range(n + 1).
LoopContinuesInclusive(i, n) == i <= n

\* line 80: does range(n) yield the index i
LoopContinues(i, n) == i < n

\* line 80, and line 76's "async with" closing the session when the loop is over:
\* the loop goes on with index i, or ends
LoopTest(i, n) ==
    IF LoopContinues(i, n)
    THEN /\ round_num' = i
         /\ pc' = "CallA"
    ELSE /\ pc' = "Final"
         /\ UNCHANGED round_num

\* A variant of lines 70-80 that begins every run with an empty transcript.
StartRunFresh(topic, n, freq) ==
    /\ initial_topic' = topic
    /\ rounds' = n
    /\ commentary_frequency' = freq
    /\ nsessions' = nsessions + 1
    /\ open_sessions' = IF LoopContinues(0, n) THEN open_sessions \cup {nsessions + 1}
                        ELSE open_sessions
    /\ current_prompt' = topic
    /\ LoopTest(0, n)
    /\ dialogue_history' = <<>>
    /\ UNCHANGED <<models, system_prompt, response_a, response_b,
                   inflight, raised, memory, ncalls>>

\* lines 70-80: run_dialogue is entered, whatever the object's state
StartRun(topic, n, freq) ==
    /\ initial_topic' = topic
    /\ rounds' = n
    /\ commentary_frequency' = freq
    /\ nsessions' = nsessions + 1
    /\ open_sessions' = IF LoopContinues(0, n) THEN open_sessions \cup {nsessions + 1}
                        ELSE open_sessions
    /\ current_prompt' = topic
    /\ LoopTest(0, n)
    /\ UNCHANGED <<models, system_prompt, dialogue_history, response_a, response_b,
                   inflight, raised, memory, ncalls>>

\* lines 70-80, on an orchestrator that has not run a dialogue yet
Start(topic, n, freq) ==
    /\ pc = "NotStarted"
    /\ StartRun(topic, n, freq)
    /\ UNCHANGED events

\* A variant of line 99 that passes current_prompt to model_b.
PromptBSameAsA == current_prompt

\* lines 87, 99, 130: the prompts threaded through the loop
PromptA == current_prompt
PromptB == response_a
NextRoundPrompt == response_b

\* A variant that also records the commentary in the transcript.
TranscriptAfterAll(site, content) ==
    Append(dialogue_history,
           [round |-> RoundNumber,
            speaker |-> IF site \in {"model_a", "model_b"} THEN site ELSE "commentator",
            content |-> content])

\* A variant that records an empty content in place of an error string.
TranscriptAfterMaskingErrors(site, content) ==
    IF site \in {"model_a", "model_b"}
    THEN Append(dialogue_history,
                [round |-> RoundNumber, speaker |-> site,
                 content |-> IF Len(content) >= 7 /\ SubSeq(content, 1, 7) = "Error: "
                             THEN "" ELSE content])
    ELSE dialogue_history

\* lines 90-94, 102-106, 126: the transcript after the call at a site returned
TranscriptAfter(site, content) ==
    IF site \in {"model_a", "model_b"}
    THEN Append(dialogue_history,
                [round |-> RoundNumber, speaker |-> site, content |-> content])
    ELSE dialogue_history

\* A generate_response awaited at the given site raises or returns (lines 42-58).
Return(site, o, next) ==
    \E req \in inflight :
        IF Escapes(o) # ""
        THEN /\ Raise(Escapes(o))
             /\ inflight' = inflight \ {req}
             /\ UNCHANGED <<dialogue_history, memory, events>>
        ELSE /\ Answer(req, o)
             /\ dialogue_history' = TranscriptAfter(site, ReturnValue(o))
             /\ events' = Append(events,
                    Event("return", site, IF site = "final" THEN 0 ELSE RoundNumber,
                          ReturnValue(o)))
             /\ pc' = next
             /\ raised' = raised
             /\ nsessions' = nsessions
             /\ open_sessions' = IF site = "final" THEN open_sessions \ {req.session}
                                 ELSE open_sessions

\* A generate_response call at a site, up to its await (lines 18-39).
Call(site, role, prompt, session, next) ==
    IF role \in DOMAIN models
    THEN LET req == Request(models[role], prompt, session)
         IN  /\ Post(req)
             /\ events' = Append(events,
                    Event("call", site, IF site = "final" THEN 0 ELSE RoundNumber,
                          req.prompt))
             /\ pc' = next
             /\ UNCHANGED raised
    ELSE /\ pc' = "Raised"
         /\ raised' = "KeyError"
         /\ UNCHANGED <<inflight, events>>

\* lines 85-88
CallA ==
    /\ pc = "CallA"
    /\ Call("model_a", "model_a", PromptA, nsessions, "AwaitA")
    /\ open_sessions' = IF "model_a" \in DOMAIN models THEN open_sessions ELSE {}
    /\ UNCHANGED <<models, system_prompt, dialogue_history, args, locals, memory,
                   nsessions, ncalls>>

\* lines 86-94
ReturnA(o) ==
    /\ pc = "AwaitA"
    /\ Return("model_a", o, "CallB")
    /\ response_a' = IF Escapes(o) # "" THEN response_a ELSE ReturnValue(o)
    /\ UNCHANGED <<models, system_prompt, args, round_num, current_prompt, response_b,
                   ncalls>>

\* lines 97-100
CallB ==
    /\ pc = "CallB"
    /\ Call("model_b", "model_b", PromptB, nsessions, "AwaitB")
    /\ open_sessions' = IF "model_b" \in DOMAIN models THEN open_sessions ELSE {}
    /\ UNCHANGED <<models, system_prompt, dialogue_history, args, locals, memory,
                   nsessions, ncalls>>

\* lines 98-106
ReturnB(o) ==
    /\ pc = "AwaitB"
    /\ Return("model_b", o, "Cadence")
    /\ response_b' = IF Escapes(o) # "" THEN response_b ELSE ReturnValue(o)
    /\ UNCHANGED <<models, system_prompt, args, round_num, current_prompt, response_a,
                   ncalls>>

\* lines 109-125
Cadence ==
    /\ pc = "Cadence"
    /\ IF commentary_frequency = 0
       THEN /\ Raise("ZeroDivisionError")
            /\ UNCHANGED <<inflight, events>>
       ELSE IF Divides(commentary_frequency, RoundNumber)
       THEN /\ Call("periodic", "commentator",
                    RecentExchange(ClientName(models["model_a"]), response_a,
                                   ClientName(models["model_b"]), response_b),
                    nsessions, "AwaitC")
            /\ open_sessions' = IF "commentator" \in DOMAIN models THEN open_sessions
                                ELSE {}
            /\ UNCHANGED nsessions
       ELSE /\ pc' = "NextPrompt"
            /\ UNCHANGED <<inflight, events, sessions, raised>>
    /\ UNCHANGED <<models, system_prompt, dialogue_history, args, locals, memory, ncalls>>

\* lines 123-127
ReturnC(o) ==
    /\ pc = "AwaitC"
    /\ Return("periodic", o, "NextPrompt")
    /\ UNCHANGED <<models, system_prompt, args, locals, ncalls>>

\* lines 130-133, up to the await of asyncio.sleep
NextPrompt ==
    /\ pc = "NextPrompt"
    /\ current_prompt' = NextRoundPrompt
    /\ events' = Append(events, Event("sleep", "loop", RoundNumber, ""))
    /\ pc' = "Sleep"
    /\ UNCHANGED <<models, system_prompt, dialogue_history, args, round_num, response_a,
                   response_b, inflight, sessions, raised, memory, ncalls>>

\* line 133: asyncio.sleep returns; line 80: the next index, or the end of the loop
Wake ==
    /\ pc = "Sleep"
    /\ events' = Append(events, Event("wake", "loop", RoundNumber, ""))
    /\ LoopTest(round_num + 1, rounds)
    /\ open_sessions' = IF LoopContinues(round_num + 1, rounds) THEN open_sessions
                        ELSE open_sessions \ {nsessions}
    /\ UNCHANGED <<models, system_prompt, dialogue_history, args, current_prompt,
                   response_a, response_b, inflight, nsessions, raised, memory, ncalls>>

\* lines 136-154
Final ==
    /\ pc = "Final"
    /\ IF {"model_a", "model_b"} \subseteq DOMAIN models
       THEN /\ Call("final", "commentator",
                    FinalSummary(ClientName(models["model_a"]),
                                 ClientName(models["model_b"]), initial_topic),
                    nsessions + 1, "AwaitFinal")
            /\ IF "commentator" \in DOMAIN models
               THEN /\ nsessions' = nsessions + 1
                    /\ open_sessions' = open_sessions \cup {nsessions + 1}
               ELSE UNCHANGED sessions
       ELSE /\ Raise("KeyError")
            /\ UNCHANGED <<inflight, events>>
    /\ UNCHANGED <<models, system_prompt, dialogue_history, args, locals, memory, ncalls>>

\* lines 151-155
ReturnFinal(o) ==
    /\ pc = "AwaitFinal"
    /\ Return("final", o, "Done")
    /\ UNCHANGED <<models, system_prompt, args, locals, ncalls>>

\* A step of a started run, its calls answered from the given set (lines 80-155).
RunWith(answers) ==
    \/ CallA
    \/ \E o \in answers : ReturnA(o)
    \/ CallB
    \/ \E o \in answers : ReturnB(o)
    \/ Cadence
    \/ \E o \in answers : ReturnC(o)
    \/ NextPrompt
    \/ Wake
    \/ Final
    \/ \E o \in answers : ReturnFinal(o)

Run == RunWith(Outcomes)

Next ==
    \/ \E reg \in Registrations : add_model(reg[1], reg[2])
    \/ \E topic \in Topics, n \in -1 .. MaxRounds, freq \in 0 .. MaxFreq :
          Start(topic, n, freq)
    \/ Run

Spec == Init /\ [][Next]_vars

\* Every request is answered and every sleep ends: each step of a started run
\* is eventually taken.
SpecFair == Spec /\ WF_vars(Run)

(***************************************************************************)
(* A ModelClient used directly: one object (client 1), built with or       *)
(* without a system prompt (line 9), called again and again on a session   *)
(* its caller keeps open, each call awaited before the next.               *)
(***************************************************************************)
InitClient ==
    /\ models = NoModels
    /\ hist = [c \in Clients |-> <<>>]
    /\ \E sys \in {"", MainSystemPrompt(1)} :
          system_prompt = [c \in Clients |-> IF c = 1 THEN sys ELSE MainSystemPrompt(c)]
    /\ dialogue_history = <<>>
    /\ pc = "Client"
    /\ initial_topic = ""
    /\ rounds = 0
    /\ commentary_frequency = 0
    /\ round_num = -1
    /\ current_prompt = ""
    /\ response_a = ""
    /\ response_b = ""
    /\ inflight = {}
    /\ open_sessions = {1}
    /\ nsessions = 1
    /\ raised = ""
    /\ returned = ""
    /\ events = <<>>
    /\ exchanges = [c \in Clients |-> <<>>]
    /\ ncalls = 0

\* lines 15-39
ClientCall(prompt) ==
    /\ pc = "Client"
    /\ inflight = {}
    /\ ncalls < MaxCalls
    /\ ncalls' = ncalls + 1
    /\ Post(Request(1, prompt, nsessions))
    /\ UNCHANGED <<models, system_prompt, dialogue_history, pc, args, locals, sessions,
                   raised, memory, events>>

\* lines 42-58
ClientReturn(o) ==
    /\ pc = "Client"
    /\ \E req \in inflight :
          IF Escapes(o) # ""
          THEN /\ pc' = "Raised"
               /\ raised' = Escapes(o)
               /\ inflight' = inflight \ {req}
               /\ UNCHANGED memory
          ELSE /\ Answer(req, o)
               /\ UNCHANGED <<pc, raised>>
    /\ UNCHANGED <<models, system_prompt, dialogue_history, args, locals, sessions,
                   events, ncalls>>

NextClient ==
    \/ \E prompt \in Prompts : ClientCall(prompt)
    \/ \E o \in ClientOutcomes : ClientReturn(o)

SpecClient == InitClient /\ [][NextClient]_vars

(***************************************************************************)
(* Properties                                                              *)
(***************************************************************************)
Min(a, b) == IF a < b THEN a ELSE b

IsPrefix(s, t) == Len(s) <= Len(t) /\ SubSeq(t, 1, Len(s)) = s

IsErrorString(text) == Len(text) >= 7 /\ SubSeq(text, 1, 7) = "Error: "

\* The (prompt, reply) pairs ps as conversation turns, oldest first.
PairsAsTurns(ps) ==
    [i \in 1 .. 2 * Len(ps) |->
        IF i % 2 = 1 THEN Turn("user", ps[(i + 1) \div 2][1])
        ELSE Turn("assistant", ps[i \div 2][2])]

LastPairs(ps, k) == SubSeq(ps, Len(ps) - k + 1, Len(ps))

\* C1: after N successful generate_response calls on a Participant (and any
\* number of failed ones), its conversation_history has min(2N, 20) entries:
\* the most recent min(N, 10) (prompt, reply) pairs, oldest first; it is never
\* longer than 20.
C1_MemoryCap ==
    \A c \in Clients :
        LET N == Len(exchanges[c])
        IN  /\ Len(hist[c]) = Min(2 * N, MaxHistory)
            /\ Len(hist[c]) <= MaxHistory
            /\ hist[c] = PairsAsTurns(LastPairs(exchanges[c], Min(N, MaxHistory \div 2)))

\* C1's case: the eleventh successful call has returned, after a failed one.
C1_Witness ==
    /\ pc = "Client"
    /\ inflight = {}
    /\ Len(exchanges[1]) = 11
    /\ ncalls > Len(exchanges[1])
    /\ Len(hist[1]) = MaxHistory
    /\ hist[1][1].content # hist[1][3].content

\* The failures a call can meet: an exception during the request, a status
\* other than 200, a body without choices[0].message.content.
FailurePath(o) == o.exc # "" \/ o.status # StatusOK \/ ~o.wellformed

\* C6: a generate_response call that ends on the failure path leaves the
\* Participant's conversation_history as it was before the call and returns
\* an error string as an ordinary value; nothing is raised.
C6_FailureLeavesMemory ==
    [][\A o \in ClientOutcomes :
          (FailurePath(o) /\ ClientReturn(o)) =>
              /\ hist' = hist
              /\ IsErrorString(returned')
              /\ raised' = "" /\ pc' = "Client"]_vars

\* C6's case: a call has failed on a Participant that already holds exchanges.
C6_Witness ==
    /\ pc = "Client"
    /\ inflight = {}
    /\ IsErrorString(returned)
    /\ Len(hist[1]) >= 2
    /\ ncalls > Len(exchanges[1])

\* C2: a run of R >= 0 rounds on a fresh orchestrator ends with exactly 2R
\* transcript records, record 2r-1 being {round r, model_a} and record 2r
\* {round r, model_b}; and every step of the run leaves the earlier transcript
\* as a prefix of the later one.
C2_TranscriptAtCompletion ==
    (pc = "Done" /\ rounds >= 0) =>
        /\ Len(dialogue_history) = 2 * rounds
        /\ \A r \in 1 .. rounds :
              /\ dialogue_history[2 * r - 1].round = r
              /\ dialogue_history[2 * r - 1].speaker = "model_a"
              /\ dialogue_history[2 * r].round = r
              /\ dialogue_history[2 * r].speaker = "model_b"
        /\ \A i \in 1 .. Len(dialogue_history) - 1 :
              dialogue_history[i].round <= dialogue_history[i + 1].round

C2_TranscriptOrdering ==
    /\ []C2_TranscriptAtCompletion
    /\ [][IsPrefix(dialogue_history, dialogue_history')]_vars

\* C2's case: a run of two rounds has completed.
C2_Witness ==
    /\ pc = "Done"
    /\ rounds = 2
    /\ Len(dialogue_history) = 4
    /\ dialogue_history[3].content # dialogue_history[4].content

\* The positions in events of the calls issued at a call site.
CallsAt(site) == {i \in DOMAIN events : events[i].ev = "call" /\ events[i].site = site}

\* C3: a completed run of R >= 0 rounds with commentary_frequency F >= 1 has
\* called the commentator inside the loop exactly floor(R / F) times, in the
\* rounds that are multiples of F, each time right after that round's model_b
\* reply, and exactly once more after the last round: floor(R / F) + 1 calls.
C3_CommentaryCadence ==
    (pc = "Done" /\ rounds >= 0 /\ commentary_frequency >= 1) =>
        /\ Cardinality(CallsAt("periodic")) = rounds \div commentary_frequency
        /\ {events[i].round : i \in CallsAt("periodic")}
              = {r \in 1 .. rounds : r % commentary_frequency = 0}
        /\ \A i \in CallsAt("periodic") :
              /\ i > 1
              /\ events[i - 1].ev = "return"
              /\ events[i - 1].site = "model_b"
              /\ events[i - 1].round = events[i].round
        /\ Cardinality(CallsAt("final")) = 1
        /\ \A i \in CallsAt("final") :
              /\ i = Len(events) - 1
              /\ rounds >= 1 =>
                    /\ events[i - 1].ev = "wake"
                    /\ events[i - 1].round = rounds
        /\ Cardinality(CallsAt("periodic") \cup CallsAt("final"))
              = rounds \div commentary_frequency + 1

\* C3's case: two rounds with commentary every second round have completed.
C3_Witness ==
    /\ pc = "Done"
    /\ rounds = 2
    /\ commentary_frequency = 2
    /\ Cardinality(CallsAt("periodic")) = 1

\* The positions before i in events of the reply returned at a site in round r.
RepliesBefore(i, site, r) ==
    {j \in 1 .. i - 1 : events[j].ev = "return" /\ events[j].site = site
                        /\ events[j].round = r}

\* C5: model_a's prompt in round 1 is the initial topic; model_a's prompt in
\* round r + 1 is the reply model_b returned in round r; model_b's prompt in
\* round r is the reply model_a returned in round r.
C5_PromptThreading ==
    /\ \A i \in CallsAt("model_a") :
          IF events[i].round = 1
          THEN events[i].text = initial_topic
          ELSE /\ RepliesBefore(i, "model_b", events[i].round - 1) # {}
               /\ \A j \in RepliesBefore(i, "model_b", events[i].round - 1) :
                     events[j].text = events[i].text
    /\ \A i \in CallsAt("model_b") :
          /\ RepliesBefore(i, "model_a", events[i].round) # {}
          /\ \A j \in RepliesBefore(i, "model_a", events[i].round) :
                events[j].text = events[i].text
    /\ \A req \in inflight :
          /\ req.messages[Len(req.messages)] = Turn("user", req.prompt)
          /\ pc \in {"AwaitA", "AwaitB", "AwaitC", "AwaitFinal"} =>
                req.prompt = events[Len(events)].text

\* C5's case: round 2 has begun after a round in which the two replies differ.
C5_Witness ==
    \E i \in CallsAt("model_a"), k \in CallsAt("model_b") :
        /\ events[i].round = 2
        /\ events[k].round = 1
        /\ events[i].text # events[k].text
        /\ events[i].text # initial_topic

\* C7: no commentator invocation, periodic or final, changes the transcript,
\* whose records all have speaker model_a or model_b; a successful commentator
\* call still appends its (prompt, reply) pair to the commentator's own
\* conversation_history.
C7_OnlyPrimariesInTranscript ==
    \A i \in DOMAIN dialogue_history :
        dialogue_history[i].speaker \in {"model_a", "model_b"}

C7_CommentaryStep ==
    /\ pc \in {"Cadence", "AwaitC", "Final", "AwaitFinal"} =>
          dialogue_history' = dialogue_history
    /\ \A o \in Outcomes :
          (~FailurePath(o) /\ (ReturnC(o) \/ ReturnFinal(o))) =>
              \E req \in inflight :
                  LET h == hist'[models["commentator"]]
                  IN  /\ req.client = models["commentator"]
                      /\ Len(h) >= 2
                      /\ h[Len(h) - 1] = Turn("user", req.prompt)
                      /\ h[Len(h)] = Turn("assistant", o.content)
                      /\ req.prompt = events[Len(events)].text

C7_CommentaryExcluded ==
    /\ []C7_OnlyPrimariesInTranscript
    /\ [][C7_CommentaryStep]_vars

\* C7's case: a run of one round has completed with a successful periodic and
\* a successful final commentary.
C7_Witness ==
    /\ pc = "Done"
    /\ Len(dialogue_history) = 2
    /\ Len(hist[models["commentator"]]) = 4
    /\ Cardinality(CallsAt("periodic")) = 1

AwaitingReply == pc \in {"AwaitA", "AwaitB", "AwaitC", "AwaitFinal"}

IsEvent(e, kind, site, r) == e.ev = kind /\ e.site = site /\ e.round = r

\* May the event e come right after the event p in a run.
Follows(p, e) ==
    CASE p.ev = "call" -> IsEvent(e, "return", p.site, p.round)
      [] p.ev = "return" /\ p.site = "model_a" -> IsEvent(e, "call", "model_b", p.round)
      [] p.ev = "return" /\ p.site = "model_b" ->
            IF commentary_frequency >= 1 /\ p.round % commentary_frequency = 0
            THEN IsEvent(e, "call", "periodic", p.round)
            ELSE IsEvent(e, "sleep", "loop", p.round)
      [] p.ev = "return" /\ p.site = "periodic" -> IsEvent(e, "sleep", "loop", p.round)
      [] p.ev = "sleep" -> IsEvent(e, "wake", "loop", p.round)
      [] p.ev = "wake" ->
            IF p.round < rounds THEN IsEvent(e, "call", "model_a", p.round + 1)
            ELSE IsEvent(e, "call", "final", 0)
      [] OTHER -> FALSE

\* C8: at most one chat-completion request is in flight at any time, and only
\* while the run awaits it; in each round the calls go model_a, model_b, then
\* the commentator if triggered, each answered before the next is issued, then
\* one pacing delay, then the next round's model_a call or the final commentary.
C8_Sequential ==
    /\ Cardinality(inflight) <= 1
    /\ (inflight # {}) <=> AwaitingReply
    /\ (pc \in {"NotStarted", "Done", "Raised", "Sleep"}) => inflight = {}
    /\ \A i \in DOMAIN events :
          IF i = 1
          THEN IF rounds >= 1 THEN IsEvent(events[i], "call", "model_a", 1)
               ELSE IsEvent(events[i], "call", "final", 0)
          ELSE Follows(events[i - 1], events[i])
    /\ (events # <<>> /\ events[Len(events)].ev = "call") <=> AwaitingReply
    /\ (events # <<>> /\ events[Len(events)].ev = "sleep") <=> pc = "Sleep"
    /\ (pc = "Done" /\ rounds >= 0) =>
          /\ Cardinality({i \in DOMAIN events : events[i].ev = "sleep"}) = rounds
          /\ IsEvent(events[Len(events)], "return", "final", 0)

\* C8's case: the final commentary is in flight after two rounds, the second
\* of which called the commentator.
C8_Witness ==
    /\ pc = "AwaitFinal"
    /\ rounds = 2
    /\ Cardinality(inflight) = 1
    /\ Cardinality(CallsAt("periodic")) = 1
    /\ Cardinality({i \in DOMAIN events : events[i].ev = "wake"}) = 2

\* Where run_dialogue stands while it awaits a role's generate_response.
AwaitsOf(role) ==
    CASE role = "model_a" -> {"AwaitA"}
      [] role = "model_b" -> {"AwaitB"}
      [] OTHER -> {"AwaitC", "AwaitFinal"}

DistinctParticipants ==
    \A r1 \in DOMAIN models, r2 \in DOMAIN models : r1 # r2 => models[r1] # models[r2]

\* C9: a Participant's conversation_history changes only in the step in which
\* one of its own generate_response calls returns; with distinct objects
\* registered for the roles, the history of a role's Participant changes only
\* when that role's call returns, and every other step leaves it unchanged.
C9_MemoryOwnership ==
    [][/\ \A c \in Clients :
             hist'[c] # hist[c] =>
                 \E req \in inflight : req.client = c /\ req \notin inflight'
       /\ DistinctParticipants =>
             \A role \in DOMAIN models :
                 hist'[models[role]] # hist[models[role]] =>
                     /\ pc \in AwaitsOf(role)
                     /\ pc' \notin AwaitsOf(role)]_vars

\* C9's case: with three distinct Participants, model_a's and model_b's calls
\* of round 1 have both succeeded and the commentator has not been called.
C9_Witness ==
    /\ pc = "Cadence"
    /\ Roles \subseteq DOMAIN models
    /\ DistinctParticipants
    /\ Len(hist[models["model_a"]]) = 2
    /\ Len(hist[models["model_b"]]) = 2
    /\ hist[models["model_a"]] # hist[models["model_b"]]
    /\ hist[models["commentator"]] = <<>>

\* All three roles are registered and the commentary frequency is positive.
ValidConfig == Roles \subseteq DOMAIN models /\ commentary_frequency >= 1

Started == pc \notin {"NotStarted", "Client"}

\* C4: whatever calls fail, a run of R rounds raises nothing and can always
\* take its next step until it is done; it then has run the final commentary
\* and holds exactly 2R transcript records, and those of a primary whose
\* every call failed hold error strings.
C4_FailureNonPropagation ==
    (Started /\ ValidConfig) =>
        /\ raised = ""
        /\ pc # "Raised"
        /\ pc # "Done" => ENABLED Run
        /\ pc = "Done" =>
              /\ Len(dialogue_history) = 2 * (IF rounds >= 0 THEN rounds ELSE 0)
              /\ Cardinality(CallsAt("final")) = 1
              /\ \A role \in {"model_a", "model_b"} :
                    exchanges[models[role]] = <<>> =>
                        \A i \in DOMAIN dialogue_history :
                            dialogue_history[i].speaker = role =>
                                IsErrorString(dialogue_history[i].content)

\* C4's case: a run of two rounds is done in which every call of model_a
\* failed, in two different ways, and model_b answered.
C4_Witness ==
    /\ pc = "Done"
    /\ rounds = 2
    /\ exchanges[models["model_a"]] = <<>>
    /\ exchanges[models["model_b"]] # <<>>
    /\ Len(dialogue_history) = 4
    /\ IsErrorString(dialogue_history[1].content)
    /\ IsErrorString(dialogue_history[3].content)
    /\ dialogue_history[1].content # dialogue_history[3].content

\* The state of the run: NotStarted, Running(round), Concluding, Done.
Phase ==
    CASE pc = "NotStarted" -> <<"NotStarted", 0>>
      [] pc \in {"CallA", "AwaitA", "CallB", "AwaitB", "Cadence", "AwaitC",
                 "NextPrompt", "Sleep"} -> <<"Running", round_num + 1>>
      [] pc \in {"Final", "AwaitFinal"} -> <<"Concluding", 0>>
      [] pc = "Done" -> <<"Done", 0>>
      [] OTHER -> <<"Raised", 0>>

C10_PhaseStep ==
    (ValidConfig' /\ rounds' >= 0) =>
        \/ Phase' = Phase
        \/ /\ Phase = <<"NotStarted", 0>>
           /\ Phase' = IF rounds' >= 1 THEN <<"Running", 1>> ELSE <<"Concluding", 0>>
        \/ /\ Phase[1] = "Running"
           /\ Phase' = IF Phase[2] < rounds THEN <<"Running", Phase[2] + 1>>
                       ELSE <<"Concluding", 0>>
        \/ /\ Phase = <<"Concluding", 0>>
           /\ Phase' = <<"Done", 0>>

\* C10: with all roles registered, R >= 0 and F >= 1, a run goes NotStarted,
\* Running(1), ..., Running(R), Concluding, Done in that order, one round at a
\* time and never back; if every request is answered and every delay ends,
\* it reaches Done.
C10_LinearAndTerminates ==
    /\ [][C10_PhaseStep]_vars
    /\ (Started /\ ValidConfig /\ rounds >= 0) ~> (pc = "Done")

\* C10's case: a run of two rounds has gone through every state and is done.
C10_Witness ==
    /\ pc = "Done"
    /\ ValidConfig
    /\ rounds = 2
    /\ round_num = 1
    /\ Len(events) >= 10

(***************************************************************************)
(* run_dialogue under every configuration its signature admits: any subset *)
(* of main()'s three registrations (lines 191-193), any number of rounds   *)
(* and a commentary frequency of either sign or zero (lines 70-71).        *)
(***************************************************************************)
MainRegistrations == {<<"model_a", 1>>, <<"model_b", 2>>, <<"commentator", 3>>}

NextConfig ==
    \/ \E reg \in MainRegistrations : add_model(reg[1], reg[2])
    \/ \E topic \in Topics, n \in -1 .. MaxRounds, freq \in -MaxFreq .. MaxFreq :
          Start(topic, n, freq)
    \/ Run

SpecConfig == Init /\ [][NextConfig]_vars

\* The exceptions run_dialogue's own statements raise: the lookup of a role
\* in self.models (lines 85, 97, 110, 136) and the modulo of line 109.
OrchestratorFaults == {"KeyError", "ZeroDivisionError"}

\* C11 as stated: whatever the rounds, the commentary frequency and the
\* registered roles, no step of run_dialogue itself aborts a started run.
C11_NoOrchestratorAbort == raised \notin OrchestratorFaults

\* C11, amended: a started run with all three roles registered and a
\* commentary frequency other than zero is never aborted by a step of
\* run_dialogue: it can always take its next step until it is done and then
\* holds the records of all its rounds. The runs run_dialogue itself aborts
\* are those with a role unregistered (KeyError at the first use of that
\* role) and those of at least one round with commentary frequency zero
\* (ZeroDivisionError in round 1, after both primaries were called).
C11_AbortsOnlyWhenMisconfigured ==
    /\ (Started /\ Roles \subseteq DOMAIN models /\ commentary_frequency # 0) =>
          /\ raised \notin OrchestratorFaults
          /\ (pc # "Raised" /\ pc # "Done") => ENABLED Run
          /\ pc = "Done" =>
                Len(dialogue_history) = 2 * (IF rounds > 0 THEN rounds ELSE 0)
    /\ raised \in OrchestratorFaults =>
          /\ pc = "Raised"
          /\ raised = "KeyError" => ~(Roles \subseteq DOMAIN models)
          /\ raised = "ZeroDivisionError" =>
                /\ commentary_frequency = 0
                /\ rounds >= 1
                /\ Len(dialogue_history) = 2
    /\ pc = "Done" =>
          /\ Roles \subseteq DOMAIN models
          /\ commentary_frequency # 0 \/ rounds <= 0

\* A run of two rounds with a negative commentary frequency is done, its
\* commentator having been called inside the loop.
C11_Witness ==
    /\ pc = "Done"
    /\ rounds = 2
    /\ commentary_frequency < 0
    /\ Len(dialogue_history) = 4
    /\ CallsAt("periodic") # {}

\* The role whose Participant a call site calls.
RoleAt(site) == IF site \in {"model_a", "model_b"} THEN site ELSE "commentator"

C12_RegistrationState ==
    /\ DOMAIN models \subseteq Roles
    /\ \A r \in DOMAIN models : models[r] \in Clients
    /\ \A i \in DOMAIN events :
          events[i].ev = "call" => RoleAt(events[i].site) \in DOMAIN models
    /\ \A req \in inflight : \E r \in DOMAIN models : models[r] = req.client
    /\ \A k \in DOMAIN dialogue_history : dialogue_history[k].speaker \in DOMAIN models
    /\ pc = "Done" => Roles \subseteq DOMAIN models
    /\ raised = "KeyError" => ~(Roles \subseteq DOMAIN models)
    /\ (Started /\ "model_a" \notin DOMAIN models /\ rounds >= 1) =>
          events = <<>> /\ dialogue_history = <<>>

\* C12, amended (registration step): add_model(role, client) makes client
\* the role's only Participant, replacing the one registered before, and
\* leaves the other roles as they were.
C12_RegistrationStep ==
    \A reg \in Registrations :
        add_model(reg[1], reg[2]) =>
            /\ DOMAIN models' = DOMAIN models \cup {reg[1]}
            /\ models'[reg[1]] = reg[2]
            /\ \A r \in DOMAIN models \ {reg[1]} : models'[r] = models[r]

C13_ErrorsAreContent ==
    \A i \in DOMAIN events :
        LET e == events[i]
        IN  (e.ev = "return" /\ e.site \in {"model_a", "model_b"}) =>
              LET k == IF e.site = "model_a" THEN 2 * e.round - 1 ELSE 2 * e.round
              IN  /\ k \in DOMAIN dialogue_history
                  /\ dialogue_history[k] =
                        [round |-> e.round, speaker |-> e.site, content |-> e.text]
                  /\ (i < Len(events) /\ e.site = "model_a") =>
                        events[i + 1] = Event("call", "model_b", e.round, e.text)
                  /\ (i < Len(events) /\ e.site = "model_b"
                        /\ commentary_frequency # 0) =>
                        IF Divides(commentary_frequency, e.round)
                        THEN events[i + 1] =
                                Event("call", "periodic", e.round,
                                      RecentExchange(ClientName(models["model_a"]),
                                                     events[i - 2].text,
                                                     ClientName(models["model_b"]),
                                                     e.text))
                        ELSE events[i + 1] = Event("sleep", "loop", e.round, "")
                  /\ e.site = "model_b" =>
                        \A j \in CallsAt("model_a") :
                            events[j].round = e.round + 1 => events[j].text = e.text

\* A run of two rounds with a commentary after each is done; model_a's call
\* failed in round 1 and model_b's in both rounds, and model_a's call of
\* round 2 succeeded.
C13_Witness ==
    /\ pc = "Done"
    /\ rounds = 2
    /\ commentary_frequency = 1
    /\ IsErrorString(dialogue_history[1].content)
    /\ IsErrorString(dialogue_history[2].content)
    /\ ~IsErrorString(dialogue_history[3].content)
    /\ IsErrorString(dialogue_history[4].content)

\* Where run_dialogue stands inside the loop's "async with" (lines 76-133).
LoopPcs == {"CallA", "AwaitA", "CallB", "AwaitB", "Cadence", "AwaitC",
            "NextPrompt", "Sleep"}

\* C14: at most one HTTP session is open at any time; the loop's session is
\* the first one created, it is open throughout the rounds and released when
\* the loop is left, by its end or by an exception; the final commentary's
\* session is a second, distinct one, created only after the first is
\* released; every request in flight was posted on a session that is open;
\* no session is open when the run is done.
C14_SessionScoping ==
    /\ Cardinality(open_sessions) <= 1
    /\ \A req \in inflight : req.session \in open_sessions
    /\ pc \in LoopPcs => open_sessions = {1} /\ nsessions = 1
    /\ pc = "Final" => open_sessions = {} /\ nsessions = 1
    /\ pc = "AwaitFinal" => open_sessions = {2} /\ nsessions = 2
    /\ pc = "Done" => open_sessions = {} /\ nsessions = 2
    /\ pc = "Raised" => open_sessions = {}
    /\ pc = "NotStarted" => open_sessions = {} /\ nsessions = 0

\* C14, step by step: a session is created only when none is open, and a
\* request is posted only on the session open at that moment.
C14_SessionSteps ==
    /\ nsessions' # nsessions => open_sessions = {} /\ nsessions' = nsessions + 1
    /\ \A req \in inflight' \ inflight : open_sessions' = {req.session}

\* C14: the two parts together.
C14_Sessions == []C14_SessionScoping /\ [][C14_SessionSteps]_vars

\* The final commentary is in flight on the second session after two rounds
\* were run on the first.
C14_Witness ==
    /\ pc = "AwaitFinal"
    /\ rounds = 2
    /\ open_sessions = {2}
    /\ \E req \in inflight : req.session = 2
    /\ Len(dialogue_history) = 4

(***************************************************************************)
(* A ModelClient called directly a few times, the endpoint answering also  *)
(* with a 200 whose choices[0].message.content is JSON null: line 44 reads *)
(* the field without looking at its type.                                  *)
(***************************************************************************)
MaxBodyCalls == 3

BodyOutcomes == ClientOutcomes \cup {NonStringContent("null")}

\* lines 15-39
BodyCall(prompt) == ncalls < MaxBodyCalls /\ ClientCall(prompt)

NextBody ==
    \/ \E prompt \in Prompts : BodyCall(prompt)
    \/ \E o \in BodyOutcomes : ClientReturn(o)

SpecBody == InitClient /\ [][NextBody]_vars

\* A 200 response whose body holds choices[0].message.content as a string.
ProperResponse(o) == o.exc = "" /\ o.status = StatusOK /\ o.wellformed /\ o.isstr

\* C15: a call takes the success path, appending the exchange to
\* conversation_history and returning the content, only for a 200 response
\* whose body holds choices[0].message.content as a string; for any other
\* status and for any 200 body in which that field is missing or is not a
\* string it returns an error string and leaves conversation_history as it
\* was.
C15_ResponseClassification ==
    [][\A o \in BodyOutcomes :
          ClientReturn(o) =>
             IF ProperResponse(o)
             THEN /\ \E req \in inflight :
                        hist'[1] = Truncate(hist[1] \o <<Turn("user", req.prompt),
                                                         Turn("assistant", o.content)>>)
                  /\ returned' = o.content
             ELSE /\ hist' = hist
                  /\ IsErrorString(returned')]_vars

\* The positions in a request's message list that hold the given turn.
Occurrences(req, turn) == {i \in DOMAIN req.messages : req.messages[i] = turn}

ReplyIn(site, r) ==
    LET j == CHOOSE j \in DOMAIN events :
                 events[j].ev = "return" /\ events[j].site = site /\ events[j].round = r
    IN  events[j].text

\* C17: the prompt of the periodic commentary of round r is made of the two
\* primaries' names and of the replies model_a and model_b returned in round
\* r, verbatim and in that order, and of nothing else that varies; the
\* prompt of the final commentary is made of the two names and the initial
\* topic only, so it is the same text whatever the replies of the run were.
C17_CommentaryPrompts ==
    /\ \A i \in CallsAt("periodic") :
          /\ RepliesBefore(i, "model_a", events[i].round) # {}
          /\ RepliesBefore(i, "model_b", events[i].round) # {}
          /\ events[i].text =
                "Recent exchange: " \o ClientName(models["model_a"]) \o ": "
                    \o ReplyIn("model_a", events[i].round) \o " "
                    \o ClientName(models["model_b"]) \o ": "
                    \o ReplyIn("model_b", events[i].round)
                    \o " Please provide commentary on this exchange."
    /\ \A i \in CallsAt("final") :
          events[i].text =
             "Please provide a comprehensive analysis of the entire dialogue between "
                 \o ClientName(models["model_a"]) \o " and "
                 \o ClientName(models["model_b"]) \o " on the topic: " \o initial_topic
    /\ \A req \in inflight :
          pc = "AwaitFinal" =>
             req.prompt =
                "Please provide a comprehensive analysis of the entire dialogue between "
                    \o ClientName(models["model_a"]) \o " and "
                    \o ClientName(models["model_b"]) \o " on the topic: " \o initial_topic

\* The final commentary was called after two rounds with a commentary each,
\* the two replies of round 2 differing from each other and model_a's reply
\* of round 2 from its reply of round 1.
C17_Witness ==
    /\ CallsAt("final") # {}
    /\ Cardinality(CallsAt("periodic")) = 2
    /\ Len(dialogue_history) = 4
    /\ dialogue_history[3].content # dialogue_history[4].content
    /\ dialogue_history[3].content # dialogue_history[1].content

\* C18, between calls: conversation_history has even length, its roles
\* alternate user, assistant, user, assistant, ..., and each assistant entry
\* holds the reply returned for the prompt of the user entry before it; the
\* pairs are the latest successful exchanges, in order.
C18_MemoryShape ==
    \A c \in Clients :
        LET h == hist[c]
        IN  /\ Len(h) % 2 = 0
            /\ \A i \in DOMAIN h :
                  h[i].role = (IF i % 2 = 1 THEN "user" ELSE "assistant")
            /\ \A k \in 1 .. Len(h) \div 2 :
                  <<h[2 * k - 1].content, h[2 * k].content>> =
                      exchanges[c][Len(exchanges[c]) - Len(h) \div 2 + k]

\* C18, step by step: a step leaves conversation_history as it is, or
\* appends one (user, assistant) pair at the end and, only when the list was
\* full, removes the oldest pair, both of its entries, from the front.
C18_PairwiseEviction ==
    \A c \in Clients :
        \/ hist'[c] = hist[c]
        \/ /\ Len(hist[c]) < MaxHistory
           /\ Len(hist'[c]) = Len(hist[c]) + 2
           /\ SubSeq(hist'[c], 1, Len(hist[c])) = hist[c]
        \/ /\ Len(hist[c]) = MaxHistory
           /\ Len(hist'[c]) = MaxHistory
           /\ SubSeq(hist'[c], 1, MaxHistory - 2) = SubSeq(hist[c], 3, MaxHistory)

\* C18: the two parts together.
C18_Memory == []C18_MemoryShape /\ [][C18_PairwiseEviction]_vars

\* Twelve calls were made, one of them failed, and the oldest exchange was
\* evicted from the full memory.
C18_Witness ==
    /\ pc = "Client"
    /\ inflight = {}
    /\ Len(hist[1]) = MaxHistory
    /\ Len(exchanges[1]) = MaxHistory \div 2 + 1
    /\ ncalls = MaxHistory \div 2 + 2
    /\ hist[1][1].content # exchanges[1][1][1]

(***************************************************************************)
(* One ModelClient (client 1) whose generate_response is invoked again     *)
(* while earlier invocations are still suspended, all on one event loop:   *)
(* a coroutine runs without interruption from one await to the next. The   *)
(* awaits of generate_response are session.post (line 39) and              *)
(* response.json() (line 43); lines 44-54 hold none. The client has made   *)
(* no call yet, or nine successful calls one after the other.              *)
(***************************************************************************)
MaxConcurrent == 3

\* The exchanges of the calls made before, oldest first.
PriorExchanges(k) == [i \in 1 .. k |-> <<IF i % 2 = 1 THEN "hello" ELSE "again", "yes">>]

\* No response has arrived for a request yet.
NoResponse ==
    [exc |-> "", msg |-> "", status |-> 0, wellformed |-> FALSE, isstr |-> FALSE,
     content |-> ""]

InitConcurrent ==
    /\ models = NoModels
    /\ \E k \in {0, MaxHistory \div 2 - 1} :
          /\ exchanges = [c \in Clients |-> IF c = 1 THEN PriorExchanges(k) ELSE <<>>]
          /\ hist = [c \in Clients |->
                        IF c = 1 THEN PairsAsTurns(PriorExchanges(k)) ELSE <<>>]
    /\ system_prompt = [c \in Clients |-> MainSystemPrompt(c)]
    /\ dialogue_history = <<>>
    /\ pc = "Concurrent"
    /\ initial_topic = ""
    /\ rounds = 0
    /\ commentary_frequency = 0
    /\ round_num = -1
    /\ current_prompt = ""
    /\ response_a = ""
    /\ response_b = ""
    /\ inflight = {}
    /\ open_sessions = {1}
    /\ nsessions = 1
    /\ raised = ""
    /\ returned = ""
    /\ events = <<>>
    /\ ncalls = 0

\* lines 15-39: the id-th invocation builds its message list and awaits the post
ConcurrentCall(prompt) ==
    /\ pc = "Concurrent"
    /\ ncalls < MaxConcurrent
    /\ ncalls' = ncalls + 1
    /\ Post([id |-> ncalls + 1, stage |-> "post", response |-> NoResponse,
             client |-> 1, prompt |-> prompt, session |-> nsessions,
             messages |-> Messages(system_prompt[1], hist[1], prompt)])
    /\ UNCHANGED <<models, system_prompt, dialogue_history, pc, args, locals, sessions,
                   raised, memory, events>>

\* lines 39-43, 55-58: the post of a suspended invocation raises or its
\* response arrives; a 200 suspends the invocation again, on response.json()
ConcurrentResponse(req, o) ==
    /\ pc = "Concurrent"
    /\ req \in inflight
    /\ req.stage = "post"
    /\ IF o.exc = "" /\ o.status = StatusOK
       THEN /\ inflight' = (inflight \ {req})
                              \cup {[req EXCEPT !.stage = "json", !.response = o]}
            /\ UNCHANGED memory
       ELSE Answer(req, o)
    /\ UNCHANGED <<models, system_prompt, dialogue_history, pc, args, locals, sessions,
                   raised, events, ncalls>>

\* lines 43-54, 57-58: response.json() returns and the invocation runs to its return
ConcurrentBody(req) ==
    /\ pc = "Concurrent"
    /\ req \in inflight
    /\ req.stage = "json"
    /\ Answer(req, req.response)
    /\ UNCHANGED <<models, system_prompt, dialogue_history, pc, args, locals, sessions,
                   raised, events, ncalls>>

NextConcurrent ==
    \/ \E prompt \in Prompts : ConcurrentCall(prompt)
    \/ \E req \in inflight, o \in ClientOutcomes : ConcurrentResponse(req, o)
    \/ \E req \in inflight : ConcurrentBody(req)

SpecConcurrent == InitConcurrent /\ [][NextConcurrent]_vars

\* C19, in every state: with invocations of one Participant overlapping,
\* conversation_history is a sequence of whole (prompt, reply) pairs, user
\* turn then assistant turn, of at most 20 entries: the latest completed
\* successful exchanges, none missing, in the order in which their
\* invocations completed.
C19_IntactPairs ==
    LET done == exchanges[1]
        kept == Min(Len(done), MaxHistory \div 2)
    IN  /\ Len(hist[1]) <= MaxHistory
        /\ hist[1] = PairsAsTurns(LastPairs(done, kept))

\* C19, step by step: the message list of an invocation is built from
\* conversation_history as it is when the invocation starts and stays as
\* built while the invocation is suspended, whatever completes meanwhile;
\* an invocation that completes on the success path puts its own pair at
\* the end of conversation_history, whenever it was started.
C19_SnapshotAndOrder ==
    /\ \A r2 \in inflight' :
          IF \E r1 \in inflight : r1.id = r2.id
          THEN \E r1 \in inflight : r1.id = r2.id /\ r1.messages = r2.messages
          ELSE /\ Snapshot(r2) = hist[1]
               /\ r2.messages[Len(r2.messages)] = Turn("user", r2.prompt)
    /\ \A req \in inflight :
          (ConcurrentBody(req) /\ req.response.wellformed) =>
              /\ Len(hist'[1]) >= 2
              /\ SubSeq(hist'[1], Len(hist'[1]) - 1, Len(hist'[1])) =
                    <<Turn("user", req.prompt), Turn("assistant", req.response.content)>>

\* C19: the two parts together.
C19_ConcurrentMemory == []C19_IntactPairs /\ [][C19_SnapshotAndOrder]_vars

\* The first invocation is still suspended, its message list built from the
\* eighteen entries of that moment, while two invocations started after it
\* have completed: their pairs are in the memory, which is full and has lost
\* its oldest pair.
C19_Witness ==
    \E req \in inflight :
        /\ req.id = 1
        /\ Len(Snapshot(req)) = MaxHistory - 2
        /\ Len(hist[1]) = MaxHistory
        /\ Len(exchanges[1]) = MaxHistory \div 2 + 1
        /\ Snapshot(req) # SubSeq(hist[1], 1, MaxHistory - 2)

(***************************************************************************)
(* run_dialogue invoked again and again on one orchestrator, each          *)
(* invocation after the one before is done, as a caller of main()'s        *)
(* orchestrator would (lines 191-196): the three roles are registered, the *)
(* commentary frequency is the default. The log gets a "start" event per   *)
(* invocation (the print of line 73) that notes the rounds asked for.      *)
(***************************************************************************)
MaxRuns == 2
MaxTotalRounds == 2
DefaultFrequency == 2

InitRuns ==
    /\ models = [r \in Roles |-> CASE r = "model_a" -> 1 [] r = "model_b" -> 2 [] OTHER -> 3]
    /\ hist = [c \in Clients |-> <<>>]
    /\ system_prompt = [c \in Clients |-> MainSystemPrompt(c)]
    /\ dialogue_history = <<>>
    /\ pc = "NotStarted"
    /\ initial_topic = ""
    /\ rounds = 0
    /\ commentary_frequency = 0
    /\ round_num = -1
    /\ current_prompt = ""
    /\ response_a = ""
    /\ response_b = ""
    /\ inflight = {}
    /\ open_sessions = {}
    /\ nsessions = 0
    /\ raised = ""
    /\ returned = ""
    /\ events = <<>>
    /\ exchanges = [c \in Clients |-> <<>>]
    /\ ncalls = 0

\* The positions in events of the invocations of run_dialogue.
Starts == {i \in DOMAIN events : events[i].ev = "start"}

\* lines 70-80: run_dialogue is invoked, for the first time or after a run is done
StartAgain(topic, n, freq) ==
    /\ pc \in {"NotStarted", "Done"}
    /\ Cardinality(Starts) < MaxRuns
    /\ Len(dialogue_history) + 2 * n <= 2 * MaxTotalRounds
    /\ StartRun(topic, n, freq)
    /\ events' = Append(events, Event("start", "run", n, topic))

\* The answers drawn for the calls of successive runs: a reply or an HTTP error.
RunsOutcomes == {Reply("yes"), HttpError(500)}

NextRuns ==
    \/ \E topic \in Topics, n \in 0 .. MaxTotalRounds :
          StartAgain(topic, n, DefaultFrequency)
    \/ RunWith(RunsOutcomes)

SpecRuns == InitRuns /\ [][NextRuns]_vars

\* The rounds asked for by the invocations logged among the first i events.
RECURSIVE RoundsStarted(_)
RoundsStarted(i) ==
    IF i = 0 THEN 0
    ELSE RoundsStarted(i - 1)
            + (IF events[i].ev = "start" /\ events[i].round > 0 THEN events[i].round ELSE 0)

\* C20, in every state: the transcript holds, one after the other, the
\* records of the invocations of run_dialogue made on the orchestrator: the
\* records of an invocation of R rounds follow those of all the invocations
\* before it and are numbered from round 1 again, model_a then model_b per
\* round; when invocations of R1, R2, ... rounds are done the transcript
\* holds 2 (R1 + R2 + ...) records; every request carries the whole memory
\* its Participant has at that moment, earlier invocations' exchanges
\* included.
C20_TranscriptAcrossRuns ==
    /\ \A i \in Starts :
          \A r \in 1 .. events[i].round :
              LET off == 2 * RoundsStarted(i - 1)
              IN  /\ off + 2 * r - 1 \in DOMAIN dialogue_history =>
                        /\ dialogue_history[off + 2 * r - 1].round = r
                        /\ dialogue_history[off + 2 * r - 1].speaker = "model_a"
                  /\ off + 2 * r \in DOMAIN dialogue_history =>
                        /\ dialogue_history[off + 2 * r].round = r
                        /\ dialogue_history[off + 2 * r].speaker = "model_b"
    /\ Len(dialogue_history) <= 2 * RoundsStarted(Len(events))
    /\ pc = "Done" => Len(dialogue_history) = 2 * RoundsStarted(Len(events))
    /\ \A req \in inflight : Snapshot(req) = hist[req.client]

\* C20, step by step: no step removes or changes a transcript record, and
\* entering run_dialogue leaves the transcript and every Participant's
\* conversation_history as the invocation before left them.
C20_NothingReset ==
    /\ IsPrefix(dialogue_history, dialogue_history')
    /\ pc' # pc /\ pc \in {"NotStarted", "Done"} =>
          /\ dialogue_history' = dialogue_history
          /\ hist' = hist
          /\ exchanges' = exchanges

\* C20: the two parts together.
C20_StateAcrossRuns == []C20_TranscriptAcrossRuns /\ [][C20_NothingReset]_vars

\* A second invocation of one round is done after a first of one round: four
\* records, the third numbered round 1, and model_a's memory holds the
\* exchanges of both invocations.
C20_Witness ==
    /\ pc = "Done"
    /\ Cardinality(Starts) = 2
    /\ rounds = 1
    /\ Len(dialogue_history) = 4
    /\ dialogue_history[3].round = 1
    /\ Len(hist[1]) = 4

====
